---------------------------- MODULE Spec2Model ----------------------------
(***************************************************************************)
(* watermarker: the page ingestion and ordering pipeline of main.go.       *)
(*                                                                         *)
(* One run of main: the walker goroutine sends matching paths on the       *)
(* unbuffered ingest channel, ingestPages indexes and sorts them,          *)
(* genProcessedPages runs one goroutine per page behind a WaitGroup,       *)
(* bundlePages hands the temporary files to img2pdf, and main removes the  *)
(* temporary files.                                                        *)
(*                                                                         *)
(* Text is modelled as a sequence of one-character strings, so that the    *)
(* regular expression and strconv.Atoi are computed character by           *)
(* character. The empty string is the empty sequence.                      *)
(***************************************************************************)
EXTENDS Integers, Sequences, FiniteSets

(***************************************************************************)
(* Bounds of the model.                                                    *)
(***************************************************************************)
\* longest directory listing drawn by Init
MaxFiles == 3
\* longest file name drawn by InitParse
MaxNameLen == 5
\* longest run of digits in the file names drawn by InitOverflow
MaxRunLen == 20

(***************************************************************************)
(* Text helpers.                                                           *)
(***************************************************************************)
Digits == {"0", "1", "2", "3", "4", "5", "6", "7", "8", "9"}

\* the characters file names are drawn from
Chars == {"p", "1", "2", "."}

DigitVal(c) ==
    CASE c = "0" -> 0 [] c = "1" -> 1 [] c = "2" -> 2 [] c = "3" -> 3
      [] c = "4" -> 4 [] c = "5" -> 5 [] c = "6" -> 6 [] c = "7" -> 7
      [] c = "8" -> 8 [] c = "9" -> 9

\* all sequences over S of length 0..n
RECURSIVE SeqsUpTo(_, _)
SeqsUpTo(S, n) ==
    IF n = 0 THEN {<<>>}
    ELSE LET shorter == SeqsUpTo(S, n - 1)
         IN  shorter \cup {Append(s, c) : s \in shorter, c \in S}

Max(S) == CHOOSE x \in S : \A y \in S : y <= x
Min(S) == CHOOSE x \in S : \A y \in S : x <= y

\* filepath.Base for the paths of the model, none of which is empty or ends
\* in a separator: the last element of the path
Base(path) ==
    LET seps == {i \in 1..Len(path) : path[i] = "/"}
    IN  IF seps = {} THEN path ELSE SubSeq(path, Max(seps) + 1, Len(path))

\* filepath.Ext: the suffix beginning at the final dot of the final element
\* of the path, empty if there is no dot
Ext(path) ==
    LET name == Base(path)
        dots == {i \in 1..Len(name) : name[i] = "."}
    IN  IF dots = {} THEN <<>> ELSE SubSeq(name, Max(dots), Len(name))

\* the `.` of the regular expression: any character but a newline
AnyChar(c) == c # "\n"

IsDigit(c) == c \in Digits

(***************************************************************************)
(* pageNumberRegex = `.+(\d+)\.?` and FindStringSubmatch.                  *)
(*                                                                         *)
(* Go's regexp returns the leftmost match and, among the matches that      *)
(* start there, the one a backtracking engine finds first: `.+` is greedy, *)
(* so it takes as many characters as still leave a match for the rest;     *)
(* then `\d+` takes as many digits as it can; then `\.?` takes a dot if    *)
(* one follows.                                                            *)
(*                                                                         *)
(* MatchesAt(f, s): the pairs <<n, m>> such that `.+` matching n           *)
(* characters from position s and `\d+` matching the next m characters is  *)
(* a match.                                                                *)
(***************************************************************************)
MatchesAt(f, s) ==
    {nm \in (1..Len(f)) \X (1..Len(f)) :
        /\ s + nm[1] + nm[2] - 1 <= Len(f)
        /\ \A i \in s..(s + nm[1] - 1) : AnyChar(f[i])
        /\ \A i \in (s + nm[1])..(s + nm[1] + nm[2] - 1) : IsDigit(f[i])}

\* the match the engine prefers among those starting at s
PreferredAt(f, s) ==
    LET ms   == MatchesAt(f, s)
        n    == Max({nm[1] : nm \in ms})
        m    == Max({nm[2] : nm \in {x \in ms : x[1] = n}})
        stop == s + n + m - 1
        dot  == IF stop < Len(f) /\ f[stop + 1] = "." THEN 1 ELSE 0
    IN  <<SubSeq(f, s, stop + dot), SubSeq(f, s + n, stop)>>

\* FindStringSubmatch: <<whole match, group 1>>, or the nil slice <<>> when
\* the expression matches nowhere
FindStringSubmatch(f) ==
    LET starts == {s \in 1..Len(f) : MatchesAt(f, s) # {}}
    IN  IF starts = {} THEN <<>> ELSE PreferredAt(f, Min(starts))


(***************************************************************************)
(* strconv.Atoi on a string of decimal digits (the only strings group 1    *)
(* can hold), for a 64-bit int. The value is out of range when the digits  *)
(* left after the leading zeros number more than those of 1<<63 - 1, or as *)
(* many and are larger.                                                    *)
(***************************************************************************)
MaxInt64Digits ==
    <<"9", "2", "2", "3", "3", "7", "2", "0", "3", "6",
      "8", "5", "4", "7", "7", "5", "8", "0", "7">>

RECURSIVE StripZeros(_)
StripZeros(ds) ==
    IF ds # <<>> /\ Head(ds) = "0" THEN StripZeros(Tail(ds)) ELSE ds

\* a <= b for digit strings of the same length
RECURSIVE DigitsLeq(_, _)
DigitsLeq(a, b) ==
    IF a = <<>> THEN TRUE
    ELSE IF DigitVal(Head(a)) # DigitVal(Head(b))
         THEN DigitVal(Head(a)) < DigitVal(Head(b))
         ELSE DigitsLeq(Tail(a), Tail(b))

RECURSIVE DecimalValue(_)
DecimalValue(ds) ==
    IF ds = <<>> THEN 0
    ELSE 10 * DecimalValue(SubSeq(ds, 1, Len(ds) - 1)) + DigitVal(ds[Len(ds)])

InRange(ds) ==
    LET sig == StripZeros(ds)
    IN  \/ Len(sig) < Len(MaxInt64Digits)
        \/ Len(sig) = Len(MaxInt64Digits) /\ DigitsLeq(sig, MaxInt64Digits)

\* [ok |-> err = nil, number |-> the int returned]
Atoi(ds) ==
    IF ds # <<>> /\ InRange(ds)
    THEN [ok |-> TRUE, number |-> DecimalValue(ds)]
    ELSE [ok |-> FALSE, number |-> 0]

(***************************************************************************)
(* The input and the configuration.                                        *)
(*                                                                         *)
(* Tree is a directory tree in the order filepath.WalkDir visits it        *)
(* (depth first, the entries of a directory in lexical order). A run's     *)
(* input is a subsequence of it. An entry with err is one WalkDir reports   *)
(* with a non-nil error (a directory it cannot read).                      *)
(***************************************************************************)
Entry(path, isDir, err) == [path |-> path, isDir |-> isDir, err |-> err]

Tree ==
    << Entry(<<"a">>, TRUE, FALSE),
       Entry(<<"a", "/", "p", "1", ".", "P">>, FALSE, FALSE),
       Entry(<<"a", "/", "p", "1", ".", "p">>, FALSE, FALSE),
       Entry(<<"a", "/", "p", "2", ".", "p">>, FALSE, FALSE),
       Entry(<<"b">>, TRUE, TRUE),
       Entry(<<"c", "/", "p", ".", "p">>, FALSE, FALSE),
       Entry(<<"c", "/", "p", "1", ".", "p">>, FALSE, FALSE),
       Entry(<<"c", "/", "p", "3", ".", "p">>, FALSE, FALSE) >>

\* the entries of Tree at the positions I, in walk order
RECURSIVE SubTree(_)
SubTree(I) ==
    IF I = {} THEN <<>>
    ELSE SubTree(I \ {Max(I)}) \o <<Tree[Max(I)]>>

\* -ext: strings.Split(fileExtensions, ",")
fileExtensions == {<<".", "p">>}

\* The names of the temporary files of one run. os.CreateTemp picks a random
\* name no file of the work directory has; the names are told apart only by
\* equality, so the model numbers them in the order they are handed out.
TmpNames == 1..MaxFiles

\* one name for every temporary file
FreshNameFixed(existing) == Min(TmpNames)

\* the name os.CreateTemp settles on: one that no existing file has
FreshName(existing) == Min(TmpNames \ existing)

VARIABLES
    dir,                \* the entries WalkDir visits, in order
    watermarkFilePath,  \* -watermark, <<>> when not given
    wpc,                \* walker goroutine: "walk", "send", "closed", "panic"
    widx,               \* walker goroutine: position in dir
    pc,                 \* main goroutine: the call it is in or about to make
    pages,              \* the slice of page structs
    received,           \* the pages in the order ingestPages appended them
    sent,               \* the paths the walker has sent on the ingest channel
    recvPath,           \* ingestPages: the loop variable `path`, received last
    filename,           \* ingestPages: the file name indexed last, <<>> before
    ingestErr,          \* the error ingestPages returned, <<>> when none
    outcome,            \* "running", "ok", "ingest_error", "bundle_error", "panic"
    wg,                 \* the WaitGroup counter
    tpc,                \* per page: where its goroutine is
    genErr,             \* per page: the step of generate that returned an error
    calls,              \* per page: the steps generate has called, each with its result
    firstDone,          \* the index of the page whose goroutine ended first, 0 before
    workdir,            \* the files in the work directory: name -> contents
    owner,              \* per temporary file ever created: the page it was made for
    bundled,            \* the argument lists img2pdf was run with, in order
    cidx,               \* main: position of the removal loop
    removeErrs          \* the indices of the pages whose os.Remove returned an error

vars ==
    <<dir, watermarkFilePath, wpc, widx, sent, pc, pages, received, recvPath, filename,
      ingestErr, outcome, wg, tpc, genErr, calls, firstDone, workdir, owner,
      bundled, cidx, removeErrs>>

walkVars == <<wpc, widx, sent>>
ingestVars == <<pages, received, recvPath, filename, ingestErr>>
taskVars == <<wg, tpc, genErr, calls, firstDone>>
fileVars == <<workdir, owner>>
config == <<dir, watermarkFilePath>>

Running == outcome = "running"

InitRest ==
    /\ watermarkFilePath \in {<<>>, <<"w">>}
    /\ wpc = "walk"
    /\ widx = 1
    /\ sent = <<>>
    /\ pc = "ingestPages"
    /\ pages = <<>>
    /\ received = <<>>
    /\ recvPath = <<>>
    /\ filename = <<>>
    /\ ingestErr = <<>>
    /\ outcome = "running"
    /\ wg = 0
    /\ tpc = <<>>
    /\ genErr = <<>>
    /\ calls = <<>>
    /\ firstDone = 0
    /\ workdir = <<>>
    /\ owner = <<>>
    /\ bundled = <<>>
    /\ cidx = 1
    /\ removeErrs = {}

Init ==
    /\ \E I \in SUBSET (1..Len(Tree)) :
          /\ Cardinality(I) <= MaxFiles
          /\ dir = SubTree(I)
    /\ InitRest

\* one file of any name directly under the search path
FileNames == SeqsUpTo(Chars, MaxNameLen) \ {<<>>, <<".">>, <<".", ".">>}

InitParse ==
    /\ \E name \in FileNames : dir = <<Entry(<<"d", "/">> \o name, FALSE, FALSE)>>
    /\ InitRest

\* k times the character c
Repeat(c, k) == [i \in 1..k |-> c]

\* one file under the search path whose name is a run of equal digits, with
\* or without a letter before it, and the accepted extension
LongNames ==
    {pre \o Repeat(d, k) \o <<".", "p">> :
        pre \in {<<>>, <<"p">>}, d \in {"1", "9"}, k \in 1..MaxRunLen}

InitOverflow ==
    /\ \E name \in LongNames : dir = <<Entry(<<"d", "/">> \o name, FALSE, FALSE)>>
    /\ InitRest

(***************************************************************************)
(* walkDirectorySearchPath: the goroutine ingestPages starts.              *)
(***************************************************************************)
\* walkFn with the error of WalkDir dropped instead of returned
walkFnErrorDropped(e) ==
    IF e.err \/ e.isDir THEN "skip"
    ELSE IF Ext(e.path) \notin fileExtensions THEN "skip"
    ELSE "send"

\* walkFn without the test of the extension
walkFnAnyExtension(e) ==
    IF e.err THEN "abort"
    ELSE IF e.isDir THEN "skip"
    ELSE "send"

\* the callback given to filepath.WalkDir, for one entry: "abort" returns the
\* error, "skip" returns nil, "send" sends the path on the ingest channel
walkFn(e) ==
    IF e.err THEN "abort"
    ELSE IF e.isDir THEN "skip"
    ELSE IF Ext(e.path) \notin fileExtensions THEN "skip"
    ELSE "send"

\* WalkDir calls the callback for the next entry. A returned error ends the
\* walk and the goroutine panics with it, which ends the process.
WalkVisit ==
    /\ Running
    /\ wpc = "walk"
    /\ widx <= Len(dir)
    /\ LET r == walkFn(dir[widx])
       IN  /\ wpc' = CASE r = "abort" -> "panic"
                       [] r = "skip"  -> "walk"
                       [] r = "send"  -> "send"
           /\ widx' = IF r = "skip" THEN widx + 1 ELSE widx
           /\ outcome' = IF r = "abort" THEN "panic" ELSE outcome
    /\ UNCHANGED <<config, sent, pc, ingestVars, taskVars, fileVars, bundled,
                   cidx, removeErrs>>

\* the walk is complete: close(ingest)
WalkClose ==
    /\ Running
    /\ wpc = "walk"
    /\ widx > Len(dir)
    /\ wpc' = "closed"
    /\ UNCHANGED <<config, widx, sent, pc, ingestVars, outcome, taskVars, fileVars,
                   bundled, cidx, removeErrs>>

(***************************************************************************)
(* ingestPages.                                                            *)
(***************************************************************************)
\* The body of the range loop for one file name: "panic" when matches[1]
\* indexes the nil slice, "error" when the function returns an error,
\* "page" when it appends a page with the number.
IndexName(name) ==
    LET matches == FindStringSubmatch(name)
    IN  IF Len(matches) < 2
          THEN [kind |-> "panic", number |-> 0, err |-> <<>>]
        ELSE IF Len(matches[2]) = 0
          THEN [kind |-> "error", number |-> 0,
                err |-> <<"no page number found in filename: ">> \o name]
        ELSE IF ~Atoi(matches[2]).ok
          THEN [kind |-> "error", number |-> 0, err |-> <<"strconv.Atoi">>]
        ELSE [kind |-> "page", number |-> Atoi(matches[2]).number, err |-> <<>>]

NewPage(path, number) == [filepath |-> path, number |-> number, tmpPath |-> <<>>]

\* the file names the specifications draw
IndexedNames ==
    {Base(Tree[k].path) : k \in 1..Len(Tree)} \cup FileNames \cup LongNames

\* IndexName tabulated, so that it is computed once for a name
IndexTable == [name \in IndexedNames |-> IndexName(name)]

\* `for path := range ingest` receives: the walker's send and the loop's
\* receive meet on the unbuffered channel, and the walker goes on.
IngestReceive ==
    /\ Running
    /\ pc = "ingestPages"
    /\ wpc = "send"
    /\ recvPath' = dir[widx].path
    /\ sent' = Append(sent, dir[widx].path)
    /\ wpc' = "walk"
    /\ widx' = widx + 1
    /\ pc' = "ingestBody"
    /\ UNCHANGED <<config, pages, received, filename, ingestErr, outcome,
                   taskVars, fileVars, bundled, cidx, removeErrs>>

\* The body of the loop for the path received. main returns when
\* ingestPages returns an error.
IngestBody ==
    /\ Running
    /\ pc = "ingestBody"
    /\ LET r == IndexTable[Base(recvPath)]
       IN  /\ filename' = Base(recvPath)
           /\ pages' = IF r.kind = "page"
                       THEN Append(pages, NewPage(recvPath, r.number)) ELSE pages
           /\ received' = IF r.kind = "page"
                          THEN Append(received, NewPage(recvPath, r.number))
                          ELSE received
           /\ ingestErr' = r.err
           /\ pc' = IF r.kind = "error" THEN "done" ELSE "ingestPages"
           /\ outcome' = CASE r.kind = "panic" -> "panic"
                           [] r.kind = "error" -> "ingest_error"
                           [] r.kind = "page"  -> outcome
    /\ UNCHANGED <<config, walkVars, recvPath, taskVars, fileVars, bundled, cidx,
                   removeErrs>>

\* cmp with its operands exchanged
cmpExchanged(i, j) == j.number - i.number

\* the comparison function given to slices.SortFunc
cmp(i, j) == i.number - j.number

\* the orders of the indices 1..n
Orders(n) == {f \in [1..n -> 1..n] : \A a, b \in 1..n : a # b => f[a] # f[b]}

\* slices.SortFunc: "sorts the slice x in ascending order as determined by
\* the cmp function. This sort is not guaranteed to be stable": every
\* arrangement of s in which no element compares less than an earlier one
SortFunc(s) ==
    {t \in {[k \in 1..Len(s) |-> s[f[k]]] : f \in Orders(Len(s))} :
        \A a, b \in 1..Len(t) : a < b => ~(cmp(t[b], t[a]) < 0)}

\* the ingest channel is closed: the loop ends, the pages are sorted and
\* returned, and main goes on to genProcessedPages
IngestReturn ==
    /\ Running
    /\ pc = "ingestPages"
    /\ wpc = "closed"
    /\ pages' \in SortFunc(pages)
    /\ pc' = "genProcessedPages"
    /\ UNCHANGED <<config, walkVars, received, recvPath, filename, ingestErr,
                   outcome,
                   taskVars, fileVars, bundled, cidx, removeErrs>>

(***************************************************************************)
(* genProcessedPages and the goroutine of each page.                       *)
(***************************************************************************)
\* wg.Add(len(pages)) and one `go func(p *page)` per index
Dispatch ==
    /\ Running
    /\ pc = "genProcessedPages"
    /\ wg' = Len(pages)
    /\ tpc' = [i \in 1..Len(pages) |-> "createTempFile"]
    /\ genErr' = [i \in 1..Len(pages) |-> "none"]
    /\ calls' = [i \in 1..Len(pages) |-> <<>>]
    /\ pc' = "wg.Wait"
    /\ UNCHANGED <<config, walkVars, ingestVars, outcome, firstDone, fileVars,
                   bundled, cidx, removeErrs>>

\* calls with the step that page i's generate has just called, and whether
\* it returned nil
Called(i, step, ok) == [calls EXCEPT ![i] = Append(@, <<step, ok>>)]

\* a failed step called again
AfterErrorRetry(step) == step

\* generate returns the error of the step that failed
AfterError(step) == "return"

\* the name stored through a pointer that every goroutine shares
SetTmpPathEveryPage(ps, i, name) ==
    [k \in 1..Len(ps) |-> [ps[k] EXCEPT !.tmpPath = <<name>>]]

\* p.tmpPath = f.Name(), p being &pages[i]
SetTmpPath(ps, i, name) == [ps EXCEPT ![i].tmpPath = <<name>>]

\* the work directory with file name holding contents
WriteFile(wd, name, contents) ==
    [n \in DOMAIN wd \cup {name} |-> IF n = name THEN contents ELSE wd[n]]

\* page.createTempFile: os.CreateTemp makes an empty file under a name no
\* file of the work directory has, or fails
CreateTempFile(i) ==
    /\ Running
    /\ i \in DOMAIN tpc
    /\ tpc[i] = "createTempFile"
    /\ \/ /\ TmpNames \ DOMAIN workdir # {}
          /\ LET name == FreshName(DOMAIN workdir)
             IN
             /\ workdir' = WriteFile(workdir, name, "empty")
             /\ owner' = WriteFile(owner, name, pages[i].filepath)
             /\ pages' = SetTmpPath(pages, i, name)
             /\ tpc' = [tpc EXCEPT ![i] = "convert"]
             /\ calls' = Called(i, "createTempFile", TRUE)
             /\ UNCHANGED genErr
       \/ /\ tpc' = [tpc EXCEPT ![i] = AfterError("createTempFile")]
          /\ genErr' = [genErr EXCEPT ![i] = "createTempFile"]
          /\ calls' = Called(i, "createTempFile", FALSE)
          /\ UNCHANGED <<pages, workdir, owner>>
    /\ UNCHANGED <<config, walkVars, pc, received, recvPath, filename, ingestErr,
                   outcome,
                   wg, firstDone, bundled, cidx, removeErrs>>

\* the watermark step whether or not a watermark is given
AfterConvertAlways == "watermark"

\* generate after a successful convert: the watermark step when enabled
AfterConvert == IF Len(watermarkFilePath) > 0 THEN "watermark" ELSE "return"

\* page.convert: the external convert writes the resized page to tmpPath,
\* or fails
Convert(i) ==
    /\ Running
    /\ i \in DOMAIN tpc
    /\ tpc[i] = "convert"
    /\ \/ /\ workdir' = WriteFile(workdir, pages[i].tmpPath[1], "converted")
          /\ tpc' = [tpc EXCEPT ![i] = AfterConvert]
          /\ calls' = Called(i, "convert", TRUE)
          /\ UNCHANGED genErr
       \/ /\ tpc' = [tpc EXCEPT ![i] = AfterError("convert")]
          /\ genErr' = [genErr EXCEPT ![i] = "convert"]
          /\ calls' = Called(i, "convert", FALSE)
          /\ UNCHANGED workdir
    /\ UNCHANGED <<config, walkVars, pc, ingestVars, outcome, wg, firstDone,
                   owner, bundled, cidx, removeErrs>>

\* page.watermark: the external magick composites the watermark onto
\* tmpPath in place, or fails
Watermark(i) ==
    /\ Running
    /\ i \in DOMAIN tpc
    /\ tpc[i] = "watermark"
    /\ \/ /\ workdir' = WriteFile(workdir, pages[i].tmpPath[1], "watermarked")
          /\ tpc' = [tpc EXCEPT ![i] = "return"]
          /\ calls' = Called(i, "watermark", TRUE)
          /\ UNCHANGED genErr
       \/ /\ tpc' = [tpc EXCEPT ![i] = AfterError("watermark")]
          /\ genErr' = [genErr EXCEPT ![i] = "watermark"]
          /\ calls' = Called(i, "watermark", FALSE)
          /\ UNCHANGED workdir
    /\ UNCHANGED <<config, walkVars, pc, ingestVars, outcome, wg, firstDone,
                   owner, bundled, cidx, removeErrs>>

\* an error of generate that ends the process
PageErrorFatal(o) == "panic"

\* the goroutine only prints "error processing page" when generate returned
\* an error: the run goes on as it was
PageErrorOutcome(o) == o

\* generate has returned: the goroutine prints the result and the deferred
\* wg.Done runs as the function returns
TaskReturn(i) ==
    /\ Running
    /\ i \in DOMAIN tpc
    /\ tpc[i] = "return"
    /\ tpc' = [tpc EXCEPT ![i] = "done"]
    /\ wg' = wg - 1
    /\ firstDone' = IF firstDone = 0 THEN i ELSE firstDone
    /\ outcome' = IF genErr[i] # "none" THEN PageErrorOutcome(outcome) ELSE outcome
    /\ UNCHANGED <<config, walkVars, pc, ingestVars, genErr, calls, fileVars,
                   bundled, cidx, removeErrs>>

\* a wait that is over while one goroutine is still running
WaitReturnsEarly(counter) == counter <= 1

\* wg.Wait blocks until the counter is zero
WaitReturns(counter) == counter = 0

WaitReturn ==
    /\ Running
    /\ pc = "wg.Wait"
    /\ WaitReturns(wg)
    /\ pc' = "bundlePages"
    /\ UNCHANGED <<config, walkVars, ingestVars, outcome, taskVars, fileVars,
                   bundled, cidx, removeErrs>>

(***************************************************************************)
(* bundlePages and the removal of the temporary files.                     *)
(***************************************************************************)
\* the files filled from the last page to the first
BundleFilesBackwards(ps) == [i \in 1..Len(ps) |-> ps[Len(ps) + 1 - i].tmpPath]

\* the files without the pages that have no tmpPath
BundleFilesSkippingEmpty(ps) ==
    LET HasTmpPath(p) == p.tmpPath # <<>>
        kept == SelectSeq(ps, HasTmpPath)
    IN  [i \in 1..Len(kept) |-> kept[i].tmpPath]

\* files[i] = p.tmpPath for i, p := range pages
BundleFiles(ps) == [i \in 1..Len(ps) |-> ps[i].tmpPath]

\* img2pdf is run once with the files; main returns when it fails and goes
\* on to remove the temporary files when it succeeds
BundlePages ==
    /\ Running
    /\ pc = "bundlePages"
    /\ bundled' = Append(bundled, BundleFiles(pages))
    /\ \/ /\ pc' = "remove"
          /\ UNCHANGED outcome
       \/ /\ pc' = "done"
          /\ outcome' = "bundle_error"
    /\ UNCHANGED <<config, walkVars, ingestVars, taskVars, fileVars, cidx,
                   removeErrs>>

\* the work directory after a successful os.Remove(path)
Remove(wd, path) ==
    [n \in DOMAIN wd \ {path[k] : k \in 1..Len(path)} |-> wd[n]]

\* os.Remove(path) can return nil: the path names a file
Removable(wd, path) == path # <<>> /\ path[1] \in DOMAIN wd

\* a loop that ends at the first os.Remove that fails
NextRemoveIndexStopAtError(ps, i) ==
    IF i \in removeErrs' THEN Len(ps) + 1 ELSE i + 1

\* the error of os.Remove is assigned to _ and the loop goes on to the next
\* page
NextRemoveIndex(ps, i) == i + 1

\* One iteration of `for _, p := range pages { _ = os.Remove(p.tmpPath) }`:
\* os.Remove deletes the file, or fails and leaves the work directory as it
\* is, as it must when the path is empty or names no file.
RemoveNext ==
    /\ Running
    /\ pc = "remove"
    /\ cidx <= Len(pages)
    /\ \/ /\ Removable(workdir, pages[cidx].tmpPath)
          /\ workdir' = Remove(workdir, pages[cidx].tmpPath)
          /\ UNCHANGED removeErrs
       \/ /\ removeErrs' = removeErrs \cup {cidx}
          /\ UNCHANGED workdir
    /\ cidx' = NextRemoveIndex(pages, cidx)
    /\ UNCHANGED <<config, walkVars, pc, ingestVars, outcome, taskVars, owner,
                   bundled>>

\* the loop is over and main returns
MainReturn ==
    /\ Running
    /\ pc = "remove"
    /\ cidx > Len(pages)
    /\ pc' = "done"
    /\ outcome' = "ok"
    /\ UNCHANGED <<config, walkVars, ingestVars, taskVars, fileVars, bundled,
                   cidx, removeErrs>>

Next ==
    \/ WalkVisit
    \/ WalkClose
    \/ IngestReceive
    \/ IngestBody
    \/ IngestReturn
    \/ Dispatch
    \/ \E i \in 1..Len(pages) : CreateTempFile(i)
    \/ \E i \in 1..Len(pages) : Convert(i)
    \/ \E i \in 1..Len(pages) : Watermark(i)
    \/ \E i \in 1..Len(pages) : TaskReturn(i)
    \/ WaitReturn
    \/ BundlePages
    \/ RemoveNext
    \/ MainReturn

Spec == Init /\ [][Next]_vars

\* the same program run on one file of an arbitrary name
SpecParse == InitParse /\ [][Next]_vars

SpecOverflow == InitOverflow /\ [][Next]_vars

\* the steps of the goroutine of walkDirectorySearchPath alone
WalkerNext == WalkVisit \/ WalkClose

\* the steps of the goroutine of main; a receive needs the walker's send
MainNext ==
    \/ IngestReceive
    \/ IngestBody
    \/ IngestReturn
    \/ Dispatch
    \/ WaitReturn
    \/ BundlePages
    \/ RemoveNext
    \/ MainReturn

\* the steps of the goroutine of page i
TaskNext(i) ==
    \/ CreateTempFile(i)
    \/ Convert(i)
    \/ Watermark(i)
    \/ TaskReturn(i)

\* The Go scheduler runs every goroutine that can take a step, and the
\* commands a goroutine waits for end: no goroutine stays enabled for ever
\* without taking a step.
Fairness ==
    /\ WF_vars(WalkerNext)
    /\ WF_vars(MainNext)
    /\ \A i \in 1..MaxFiles : WF_vars(TaskNext(i))

SpecFair == Init /\ [][Next]_vars /\ Fairness

(***************************************************************************)
(* Vocabulary of the properties.                                           *)
(***************************************************************************)
\* genProcessedPages has returned
Dispatched == pc \in {"bundlePages", "remove"} \/ bundled # <<>>

\* ingestPages has returned its pages
Ingested == pc \notin {"ingestPages", "ingestBody"}

\* the position of the page with this path in the order of discovery
Discovery(path) == CHOOSE k \in 1..Len(received) : received[k].filepath = path

HasDigit(name) == \E k \in 1..Len(name) : IsDigit(name[k])

\* the last maximal run of digits of a name that has a digit
LastDigitRun(name) ==
    LET last  == Max({k \in 1..Len(name) : IsDigit(name[k])})
        first == Min({k \in 1..last : \A j \in k..last : IsDigit(name[j])})
    IN  SubSeq(name, first, last)

\* WalkDir has reported an error for an entry it visited
WalkErrorSeen ==
    \E k \in 1..Len(dir) :
        /\ dir[k].err
        /\ k < widx \/ (k = widx /\ wpc = "panic")

\* the loop of ingestPages has met a file name it cannot index
IndexingFailed == filename # <<>> /\ IndexTable[filename].kind # "page"

(***************************************************************************)
(* C1. Whenever img2pdf is run, its file list is the tmpPath of each page  *)
(* in ascending order of page number: position i holds the tmpPath of      *)
(* pages[i], that file was created for pages[i], and pages is ascending,   *)
(* whatever the order in which the pages' goroutines ended.                *)
(***************************************************************************)
C1_BundleInPageOrder ==
    \A k \in 1..Len(bundled) :
        /\ Len(bundled[k]) = Len(pages)
        /\ \A i \in 1..Len(pages) :
              /\ bundled[k][i] = pages[i].tmpPath
              /\ bundled[k][i] # <<>> =>
                    owner[bundled[k][i][1]] = pages[i].filepath
        /\ \A i, j \in 1..Len(pages) :
              i < j => pages[i].number <= pages[j].number

\* three pages, discovered out of page order, every one with its file, the
\* goroutine of the last page ended first, and img2pdf was run
C1_Witness ==
    /\ bundled # <<>>
    /\ Len(pages) = 3
    /\ \A i \in 1..3 : pages[i].tmpPath # <<>>
    /\ received[1].filepath # pages[1].filepath
    /\ firstDone = 3

(***************************************************************************)
(* C2. Bundling is all or nothing: whenever img2pdf is run, every page has *)
(* a tmpPath and every step of its generate succeeded.                     *)
(***************************************************************************)
C2_BundleAllOrNothing ==
    bundled # <<>> =>
        \A i \in 1..Len(pages) :
            /\ pages[i].tmpPath # <<>>
            /\ genErr[i] = "none"

(***************************************************************************)
(* C3. When the run has ended after bundlePages returned, with or without  *)
(* an error, no temporary file created by createTempFile still exists.     *)
(***************************************************************************)
C3_TempFilesRemoved ==
    (pc = "done" /\ bundled # <<>>) =>
        \A name \in DOMAIN owner : name \notin DOMAIN workdir

(***************************************************************************)
(* C4. Full barrier: once genProcessedPages has returned (bundlePages is   *)
(* about to run, or img2pdf has been run) every page's goroutine has       *)
(* ended.                                                                  *)
(***************************************************************************)
C4_FullBarrier ==
    Dispatched =>
        /\ DOMAIN tpc = 1..Len(pages)
        /\ \A i \in 1..Len(pages) : tpc[i] = "done"

\* bundlePages is about to run after three goroutines, one of which failed
C4_Witness ==
    /\ pc = "bundlePages"
    /\ Len(pages) = 3
    /\ firstDone = 2
    /\ \E i \in 1..3 : genErr[i] # "none"
    /\ \E i \in 1..3 : genErr[i] = "none"

(***************************************************************************)
(* C5. When genProcessedPages has returned, a page whose convert or        *)
(* watermark step failed has an empty tmpPath.                             *)
(***************************************************************************)
C5_FailedPageHasNoTmpPath ==
    Dispatched =>
        \A i \in 1..Len(pages) :
            genErr[i] \in {"convert", "watermark"} => pages[i].tmpPath = <<>>

(***************************************************************************)
(* C6. The pages ingestPages returns are in ascending order of page        *)
(* number and are the indexed pages, each once.                            *)
(***************************************************************************)
C6_SortedAscending ==
    Ingested =>
        /\ \A i, j \in 1..Len(pages) :
              i < j => pages[i].number <= pages[j].number
        /\ Len(pages) = Len(received)
        /\ \A k \in 1..Len(received) :
              \E i \in 1..Len(pages) :
                  /\ pages[i].filepath = received[k].filepath
                  /\ pages[i].number = received[k].number

\* ingestPages has returned three pages it received in another order
C6_Witness ==
    /\ pc = "genProcessedPages"
    /\ Len(pages) = 3
    /\ received[2].number > received[3].number
    /\ pages[2].number < pages[3].number

(***************************************************************************)
(* C7. The order is stable: two pages with the same page number are        *)
(* returned by ingestPages in the order in which they were received.       *)
(***************************************************************************)
C7_StableOrder ==
    Ingested =>
        \A i, j \in 1..Len(pages) :
            (i < j /\ pages[i].number = pages[j].number) =>
                Discovery(pages[i].filepath) < Discovery(pages[j].filepath)

(***************************************************************************)
(* C8. The page number the indexer gives a file name is the value of the   *)
(* whole last run of digits of the name.                                   *)
(***************************************************************************)
C8_WholeLastDigitRun ==
    \A k \in 1..Len(received) :
        LET name == Base(received[k].filepath)
        IN  /\ HasDigit(name)
            /\ received[k].number = DecimalValue(LastDigitRun(name))

(***************************************************************************)
(* C9. A file name without a digit makes ingestPages return an error that  *)
(* names the file, and main ends with an ingestion error, not a panic.     *)
(***************************************************************************)
C9_NoDigitIsAnError ==
    (filename # <<>> /\ ~HasDigit(filename)) =>
        /\ outcome = "ingest_error"
        /\ ingestErr = <<"no page number found in filename: ">> \o filename

(***************************************************************************)
(* C10. Fail fast: after WalkDir reported an error, or a file name could   *)
(* not be indexed, no page's goroutine is ever started, no temporary file  *)
(* is created and img2pdf is never run.                                    *)
(***************************************************************************)
C10_FailFast ==
    (WalkErrorSeen \/ IndexingFailed) =>
        /\ tpc = <<>>
        /\ DOMAIN owner = {}
        /\ bundled = <<>>

\* the walk failed after two pages had been received
C10_Witness ==
    /\ WalkErrorSeen
    /\ outcome = "panic"
    /\ Len(pages) = 2

(***************************************************************************)
(* C11. The paths sent on the ingest channel are files of the tree whose   *)
(* extension is, letter case included, one of the accepted extensions,     *)
(* never a directory; and when the walk has ended without an error they    *)
(* are all of those files.                                                 *)
(***************************************************************************)
\* the paths of the files of the tree with an accepted extension
AcceptedPaths ==
    {dir[k].path : k \in {j \in 1..Len(dir) :
        ~dir[j].isDir /\ Ext(dir[j].path) \in fileExtensions}}

C11_ExactlyAcceptedFiles ==
    LET accepted == AcceptedPaths
    IN  /\ \A k \in 1..Len(sent) : sent[k] \in accepted
        /\ wpc = "send" => dir[widx].path \in accepted
        /\ wpc = "closed" => {sent[k] : k \in 1..Len(sent)} = accepted

\* the walk of a directory, a file with the extension in another case and
\* an accepted file has ended
C11_Witness ==
    /\ wpc = "closed"
    /\ Len(dir) = 3
    /\ dir[1].isDir
    /\ Ext(dir[2].path) = <<".", "P">>
    /\ Len(sent) = 1

(***************************************************************************)
(* Vocabulary of the properties about the steps of generate.               *)
(***************************************************************************)
\* the steps generate calls when none fails
FullSteps ==
    IF Len(watermarkFilePath) > 0
    THEN <<"createTempFile", "convert", "watermark">>
    ELSE <<"createTempFile", "convert">>

\* the contents of a temporary file after every step of FullSteps
FinalContents == IF Len(watermarkFilePath) > 0 THEN "watermarked" ELSE "converted"

\* every step page i's generate has called returned nil
OwnStepsSucceeded(i) == \A k \in 1..Len(calls[i]) : calls[i][k][2]

\* how many times page i's generate has called step
TimesCalled(i, step) == Cardinality({k \in 1..Len(calls[i]) : calls[i][k][1] = step})

(***************************************************************************)
(* C12. Failure isolation: a failed page never ends the run while the      *)
(* pages' goroutines are running; when genProcessedPages has returned,     *)
(* every page's generate went on until its own first failing step or       *)
(* through all its steps, and a page whose own steps all succeeded has its *)
(* tmpPath set to a completely written file, whatever happened to the      *)
(* other pages.                                                            *)
(***************************************************************************)
C12_FailureIsolation ==
    /\ pc = "wg.Wait" => Running
    /\ pc = "bundlePages" =>
          \A i \in 1..Len(pages) :
              /\ ~OwnStepsSucceeded(i) \/ Len(calls[i]) = Len(FullSteps)
              /\ OwnStepsSucceeded(i) =>
                    /\ pages[i].tmpPath # <<>>
                    /\ pages[i].tmpPath[1] \in DOMAIN workdir
                    /\ workdir[pages[i].tmpPath[1]] = FinalContents

\* genProcessedPages has returned: the first page failed in createTempFile
\* and ended first, the second failed in convert, the third succeeded
C12_Witness ==
    /\ pc = "bundlePages"
    /\ Len(pages) = 3
    /\ genErr[1] = "createTempFile"
    /\ genErr[2] = "convert"
    /\ OwnStepsSucceeded(3)
    /\ firstDone = 1

(***************************************************************************)
(* C13. The steps of one page are ordered and conditional: createTempFile, *)
(* then convert, then watermark; a failed step is the last one called;     *)
(* convert is called only with the temporary file allocated; watermark is  *)
(* called only when a watermark is configured and convert succeeded, and   *)
(* is called in that case before the goroutine ends.                       *)
(***************************************************************************)
C13_StepOrder ==
    \A i \in DOMAIN calls :
        LET c == calls[i]
        IN  /\ Len(c) <= 3
            /\ \A k \in 1..Len(c) :
                  c[k][1] = <<"createTempFile", "convert", "watermark">>[k]
            /\ \A k \in 1..(Len(c) - 1) : c[k][2]
            /\ Len(c) >= 2 => pages[i].tmpPath # <<>>
            /\ Len(c) >= 3 => Len(watermarkFilePath) > 0
            /\ (tpc[i] \in {"return", "done"} /\ Len(watermarkFilePath) > 0
                  /\ Len(c) >= 2 /\ c[2][2]) => Len(c) = 3

\* with a watermark configured, one page went through its three steps and
\* another stopped at a failed convert
C13_Witness ==
    /\ Len(watermarkFilePath) > 0
    /\ Len(tpc) >= 2
    /\ tpc[1] = "done" /\ Len(calls[1]) = 3 /\ OwnStepsSucceeded(1)
    /\ tpc[2] = "done" /\ genErr[2] = "convert" /\ Len(calls[2]) = 2

(***************************************************************************)
(* C14. While the pages' goroutines run, a step changes at most the        *)
(* tmpPath of the page whose goroutine takes it, and only from empty to    *)
(* set; the filepath and number of every page, the order and length of     *)
(* the slice and the configuration do not change.                          *)
(***************************************************************************)
C14_TaskFrame ==
    [][pc = "wg.Wait" =>
          /\ Len(pages') = Len(pages)
          /\ \A i \in 1..Len(pages) :
                /\ pages'[i].filepath = pages[i].filepath
                /\ pages'[i].number = pages[i].number
                /\ pages'[i].tmpPath # pages[i].tmpPath =>
                      /\ pages[i].tmpPath = <<>>
                      /\ tpc[i] = "createTempFile"
                      /\ tpc'[i] # tpc[i]
          /\ dir' = dir
          /\ watermarkFilePath' = watermarkFilePath]_vars

\* two goroutines have set the tmpPath of their pages and the third has
\* not yet
C14_Witness ==
    /\ pc = "wg.Wait"
    /\ Len(pages) = 3
    /\ pages[1].tmpPath # <<>>
    /\ pages[3].tmpPath # <<>>
    /\ pages[2].tmpPath = <<>>
    /\ tpc[2] = "createTempFile"

(***************************************************************************)
(* C15. Two different pages never hold the same tmpPath, given that        *)
(* os.CreateTemp never returns the name of an existing file.               *)
(***************************************************************************)
C15_DistinctTmpPaths ==
    \A i, j \in 1..Len(pages) :
        (i # j /\ pages[i].tmpPath # <<>> /\ pages[j].tmpPath # <<>>) =>
            pages[i].tmpPath # pages[j].tmpPath

\* three goroutines have each allocated a file, the last page first
C15_Witness ==
    /\ pc = "wg.Wait"
    /\ Len(pages) = 3
    /\ \A i \in 1..3 : pages[i].tmpPath # <<>>
    /\ pages[3].tmpPath = <<1>>

(***************************************************************************)
(* C16. A file name whose last run of digits is out of the range of int    *)
(* ends the run with the error of ingestPages, as a name without a digit   *)
(* is to (C9), and no page is made of it.                                  *)
(***************************************************************************)
C16_OverflowIsAnError ==
    (filename # <<>> /\ HasDigit(filename)
        /\ ~InRange(LastDigitRun(filename))) =>
        /\ outcome = "ingest_error"
        /\ pc = "done"
        /\ ingestErr # <<>>
        /\ \A k \in 1..Len(received) : Base(received[k].filepath) # filename

(***************************************************************************)
(* C17. Nothing is retried: img2pdf is run at most once in a run, and for  *)
(* each page createTempFile, convert and watermark are each called at most *)
(* once, also when the call failed.                                        *)
(***************************************************************************)
C17_NoRetry ==
    /\ Len(bundled) <= 1
    /\ \A i \in DOMAIN calls :
          \A step \in {"createTempFile", "convert", "watermark"} :
              TimesCalled(i, step) <= 1

\* the run ended on a failed img2pdf after one page failed in convert and
\* another in watermark
C17_Witness ==
    /\ pc = "done"
    /\ outcome = "bundle_error"
    /\ \E i \in DOMAIN genErr : genErr[i] = "convert"
    /\ \E i \in DOMAIN genErr : genErr[i] = "watermark"

(***************************************************************************)
(* C18. The removal is best effort and keeps the outcome: an os.Remove     *)
(* that fails (the page has no tmpPath, or the file cannot be deleted)     *)
(* neither ends the run nor stops the loop, so that every page the loop    *)
(* has passed has no file left unless its own os.Remove failed; a run that *)
(* img2pdf completed ends "ok" with the loop having passed every page, and *)
(* a run that img2pdf failed ends "bundle_error".                          *)
(***************************************************************************)
FileGone(i) ==
    pages[i].tmpPath = <<>> \/ pages[i].tmpPath[1] \notin DOMAIN workdir

C18_CleanupBestEffort ==
    /\ pc = "remove" =>
          /\ Running
          /\ \A k \in 1..Len(pages) :
                k < cidx => (FileGone(k) \/ k \in removeErrs)
    /\ (pc = "done" /\ bundled # <<>>) =>
          /\ outcome \in {"ok", "bundle_error"}
          /\ outcome = "bundle_error" => cidx = 1
          /\ outcome = "ok" =>
                \A k \in 1..Len(pages) : FileGone(k) \/ k \in removeErrs

\* the run ended "ok": the first page had no tmpPath and the file of the
\* second could not be deleted, so both os.Remove failed, and the file of
\* the third page is gone
C18_Witness ==
    /\ pc = "done"
    /\ outcome = "ok"
    /\ Len(pages) = 3
    /\ pages[1].tmpPath = <<>>
    /\ pages[2].tmpPath # <<>>
    /\ pages[3].tmpPath # <<>>
    /\ removeErrs = {1, 2}
    /\ DOMAIN workdir = {pages[2].tmpPath[1]}

(***************************************************************************)
(* C19. Nothing is lost or duplicated between the walk and img2pdf: no     *)
(* path is sent twice; as long as no file name has failed to index, the    *)
(* pages indexed are the paths sent, in the order sent, but for the one    *)
(* path the loop body is working on; the channel is closed only when       *)
(* WalkDir has visited every entry; and the file list img2pdf is given has *)
(* one entry for each path sent, that of the one page made of the path.    *)
(***************************************************************************)
C19_NothingLostOrDuplicated ==
    /\ \A j, k \in 1..Len(sent) : sent[j] = sent[k] => j = k
    /\ ~IndexingFailed =>
          /\ Len(sent) = Len(received) + (IF pc = "ingestBody" THEN 1 ELSE 0)
          /\ \A k \in 1..Len(received) : received[k].filepath = sent[k]
          /\ pc = "ingestBody" => recvPath = sent[Len(sent)]
    /\ wpc = "closed" => widx = Len(dir) + 1
    /\ bundled # <<>> =>
          /\ Len(bundled[1]) = Len(sent)
          /\ Len(pages) = Len(sent)
          /\ \A k \in 1..Len(sent) :
                Cardinality({i \in 1..Len(pages) :
                                pages[i].filepath = sent[k]}) = 1

\* img2pdf was given three files for three paths sent, the page of the
\* path sent first is not the first, and one page has no tmpPath
C19_Witness ==
    /\ bundled # <<>>
    /\ Len(sent) = 3
    /\ pages[1].filepath # sent[1]
    /\ \E i \in 1..3 : pages[i].tmpPath = <<>>

(***************************************************************************)
(* C20. The goroutine of walkDirectorySearchPath never stays blocked on    *)
(* its send: every path it is sending is received, and it ends, closing    *)
(* the channel or panicking with the error of the walk, also in a run      *)
(* where ingestPages stops receiving at a file name it cannot index.       *)
(***************************************************************************)
C20_WalkerNeverStuck ==
    /\ (wpc = "send") ~> (wpc # "send")
    /\ <>(wpc \in {"closed", "panic"})

=============================================================================
